---- MODULE Spec2Model ----
(***************************************************************************)
(* HTML to PDF/DOCX converter (src/main.py).                               *)
(*                                                                         *)
(* State: the shared output directory, the directory of temporary files,   *)
(* the Chromium sessions that are open, and for every /convert request its *)
(* position in the handler together with the handler's local variables.    *)
(* A filename is a sequence of characters; a character is a string token.  *)
(***************************************************************************)
EXTENDS Naturals, Sequences, FiniteSets

(* ------------------------------ bounds -------------------------------- *)

\* number of /convert requests that may be in flight together
NumReq == 2

\* longest free prefix of a requested filename that is enumerated
MaxLen == 2

\* size in bytes of a completely written artifact
DocBytes == 2048

\* bytes per KB, the divisor of st_size
KB == 1024

Reqs == 1..NumReq

(* ---------------------------- characters ------------------------------ *)

\* ASCII letters and digits that occur in the enumerated filenames
AsciiAlnum == {"a", "b", "c", "d", "e", "f", "o", "p", "s", "t", "w", "x", "1"}

\* letters and digits outside ASCII: U+00E9 (e acute), U+0663 (arabic-indic 3)
UnicodeAlnum == {"U+00E9", "U+0663"}

\* the three punctuation characters the sanitizer keeps
KeptPunct == {"_", "-", "."}

\* the character set [A-Za-z0-9_.-]
AllowedChars == AsciiAlnum \cup KeptPunct

\* str.isalnum(): true of every Unicode letter or digit, ASCII or not
IsAlnum(c) == c \in AsciiAlnum \cup UnicodeAlnum

(* ----------------------------- formats -------------------------------- *)

OutputFormat == {"pdf", "docx"}

\* request.output_format.value, as characters
FileExtension(fmt) ==
    IF fmt = "pdf" THEN <<"p", "d", "f">> ELSE <<"d", "o", "c", "x">>

\* f'.{file_extension}'
DotExtension(fmt) == <<".">> \o FileExtension(fmt)

(* ------------------------- string operations -------------------------- *)

\* str.endswith
EndsWith(s, suffix) ==
    /\ Len(s) >= Len(suffix)
    /\ SubSeq(s, Len(s) - Len(suffix) + 1, Len(s)) = suffix

\* c in s
Contains(s, c) == \E i \in 1..Len(s) : s[i] = c

\* index of the last occurrence of c in s (s contains c)
LastIndexOf(s, c) ==
    CHOOSE i \in 1..Len(s) :
        /\ s[i] = c
        /\ \A j \in (i + 1)..Len(s) : s[j] # c

\* s.rsplit('.', 1)[0]: what precedes the last dot
RSplitDotHead(s) ==
    IF Contains(s, ".") THEN SubSeq(s, 1, LastIndexOf(s, ".") - 1) ELSE s

\* "".join(c for c in s if keep(c))
RECURSIVE KeepChars(_)
KeepChars(s) ==
    IF s = <<>> THEN <<>>
    ELSE (IF IsAlnum(Head(s)) \/ Head(s) \in KeptPunct THEN <<Head(s)>> ELSE <<>>)
         \o KeepChars(Tail(s))

(* ------------------------- filename handling -------------------------- *)

\* lines 103-106: request.filename after the extension has been corrected
CorrectedFilename(filename, fmt) ==
    IF ~EndsWith(filename, DotExtension(fmt))
    THEN (IF Contains(filename, ".") THEN RSplitDotHead(filename) ELSE filename)
         \o DotExtension(fmt)
    ELSE filename

\* line 109: safe_filename
SafeFilename(filename, fmt) == KeepChars(CorrectedFilename(filename, fmt))

(* ------------------------------- state -------------------------------- *)

VARIABLES
    pc,             \* position of each request in the /convert handler
    filename,       \* request.filename as received
    output_format,  \* request.output_format
    fault,          \* the failure the environment injects into the request
    safe_filename,  \* safe_filename, the name under OUTPUT_DIR (<<>>: unset)
    browser,        \* generate_pdf's browser, a session id (0: none)
    tmp_html_path,  \* generate_docx's tmp_html_path, a temp file id (0: unset)
    exc,            \* exception travelling through a finally block ("": none)
    response,       \* what the handler returned
    files,          \* OUTPUT_DIR: name -> [src, size, writers]
    tmpfiles,       \* the temp directory: id -> html written to it
    sessions,       \* open Chromium sessions: id -> [owner, has_page, content]
    last_delete     \* response of the latest DELETE /output/{filename}

vars == <<pc, filename, output_format, fault, safe_filename, browser,
          tmp_html_path, exc, response, files, tmpfiles, sessions, last_delete>>

\* failures of the PDF path, by the call that raises
PdfFaults == {"none", "launch", "new_page", "load_timeout", "print", "write"}

\* failures of the DOCX path, by the call that raises
DocxFaults == {"none", "tmp_write", "pandoc_exit", "pandoc_missing"}

FaultsOf(fmt) == IF fmt = "pdf" THEN PdfFaults ELSE DocxFaults

NoResponse == [status |-> 0, size_kb |-> 0, detail |-> ""]

\* request.html is identified by the request that carries it
Html(r) == r

\* round(st_size / 1024, 2), in hundredths of a KB
SizeKb(st_size) == (st_size * 200 + KB) \div (2 * KB)

(* --------------------------- file system ------------------------------ *)

Exists(path) == path \in DOMAIN files

\* the directory with `path` bound to record `f`
WithFile(path, f) ==
    [n \in DOMAIN files \cup {path} |-> IF n = path THEN f ELSE files[n]]

\* Path.unlink / os.remove on the output directory
WithoutFile(path) == [n \in DOMAIN files \ {path} |-> files[n]]

\* open(path, 'wb') by request r: creates the file or truncates it
OpenedForWrite(path, r, src) ==
    WithFile(path, [src |-> src, size |-> 0,
                    writers |-> (IF Exists(path) THEN files[path].writers ELSE {})
                                \cup {r}])

\* write of the whole document through r's handle, then close; the bytes
\* are lost when the name was unlinked after r opened it
WrittenAndClosed(path, r, src) ==
    IF Exists(path) /\ r \in files[path].writers
    THEN WithFile(path, [src |-> src, size |-> DocBytes,
                         writers |-> files[path].writers \ {r}])
    ELSE files

\* close of r's handle without a write
Closed(path, r) ==
    IF Exists(path) /\ r \in files[path].writers
    THEN WithFile(path, [files[path] EXCEPT !.writers = @ \ {r}])
    ELSE files

\* a converter process writing the whole output file in one go
WrittenByTool(path, src) ==
    WithFile(path, [src |-> src, size |-> DocBytes,
                    writers |-> IF Exists(path) THEN files[path].writers ELSE {}])

\* least id not in use, as the OS hands out a fresh process / a fresh name
FreshId(used) == CHOOSE n \in 1..(Cardinality(used) + 1) :
                    /\ n \notin used
                    /\ \A m \in 1..(n - 1) : m \in used

\* p.chromium.launch: a new browser process
LaunchedSession(r) == FreshId(DOMAIN sessions)

\* one fixed temp file name for every call
SharedTempName(r) == 1

\* tempfile.NamedTemporaryFile(suffix='.html', delete=False): a new name
TempName(r) == FreshId(DOMAIN tmpfiles)

(* ------------------------------ Init ---------------------------------- *)

Init ==
    /\ pc = [r \in Reqs |-> "idle"]
    /\ filename = [r \in Reqs |-> <<>>]
    /\ output_format = [r \in Reqs |-> "pdf"]
    /\ fault = [r \in Reqs |-> "none"]
    /\ safe_filename = [r \in Reqs |-> <<>>]
    /\ browser = [r \in Reqs |-> 0]
    /\ tmp_html_path = [r \in Reqs |-> 0]
    /\ exc = [r \in Reqs |-> ""]
    /\ response = [r \in Reqs |-> NoResponse]
    /\ files = <<>>
    /\ tmpfiles = <<>>
    /\ sessions = <<>>
    /\ last_delete = NoResponse

(* ------------------------ the /convert handler ------------------------ *)

\* lines 144-149: the handler's except clause turns e into HTTP 500
HandlerFail(r, e) ==
    /\ pc' = [pc EXCEPT ![r] = "done"]
    /\ response' = [response EXCEPT ![r] =
                        [status |-> 500, size_kb |-> 0, detail |-> e]]
    /\ browser' = [browser EXCEPT ![r] = 0]
    /\ tmp_html_path' = [tmp_html_path EXCEPT ![r] = 0]
    /\ exc' = [exc EXCEPT ![r] = ""]

\* lines 98-119: a request arrives; the name is corrected and sanitized and
\* the handler branches on the format.  Requests are numbered by arrival.
Start(r, fn, fmt, flt) ==
    /\ pc[r] = "idle"
    /\ \A q \in 1..(r - 1) : pc[q] # "idle"
    /\ filename' = [filename EXCEPT ![r] = fn]
    /\ output_format' = [output_format EXCEPT ![r] = fmt]
    /\ fault' = [fault EXCEPT ![r] = flt]
    /\ safe_filename' = [safe_filename EXCEPT ![r] = SafeFilename(fn, fmt)]
    /\ pc' = [pc EXCEPT ![r] = IF fmt = "pdf" THEN "pdf_launch" ELSE "docx_tmp"]
    /\ UNCHANGED <<browser, tmp_html_path, exc, response, files, tmpfiles,
                   sessions, last_delete>>

(* --------------------------- generate_pdf ----------------------------- *)

\* the exception leaves generate_pdf at once, as if the try had no finally
RaiseSkippingFinally(r, e) == HandlerFail(r, e)

\* lines 169-193: an exception raised inside the try block reaches the
\* finally clause, which awaits browser.close() before it propagates
RaiseInBrowserTry(r, e) ==
    /\ pc' = [pc EXCEPT ![r] = "pdf_close"]
    /\ exc' = [exc EXCEPT ![r] = e]
    /\ UNCHANGED <<browser, tmp_html_path, response>>

\* lines 154-167: async_playwright() and p.chromium.launch(...)
PdfLaunch(r) ==
    /\ pc[r] = "pdf_launch"
    /\ IF fault[r] = "launch"
       THEN /\ HandlerFail(r, "launch")
            /\ UNCHANGED sessions
       ELSE /\ sessions' = [i \in DOMAIN sessions \cup {LaunchedSession(r)} |->
                               IF i = LaunchedSession(r)
                               THEN [owner |-> r, has_page |-> FALSE, content |-> 0]
                               ELSE sessions[i]]
            /\ browser' = [browser EXCEPT ![r] = LaunchedSession(r)]
            /\ pc' = [pc EXCEPT ![r] = "pdf_new_page"]
            /\ UNCHANGED <<tmp_html_path, exc, response>>
    /\ UNCHANGED <<filename, output_format, fault, safe_filename, files,
                   tmpfiles, last_delete>>

\* line 170: page = await browser.new_page()
PdfNewPage(r) ==
    /\ pc[r] = "pdf_new_page"
    /\ IF fault[r] = "new_page"
       THEN /\ RaiseInBrowserTry(r, "new_page")
            /\ UNCHANGED sessions
       ELSE /\ sessions' = [sessions EXCEPT ![browser[r]].has_page = TRUE]
            /\ pc' = [pc EXCEPT ![r] = "pdf_set_content"]
            /\ UNCHANGED <<browser, tmp_html_path, exc, response>>
    /\ UNCHANGED <<filename, output_format, fault, safe_filename, files,
                   tmpfiles, last_delete>>

\* lines 172-176: await page.set_content(html, 'networkidle', timeout=30000)
PdfSetContent(r) ==
    /\ pc[r] = "pdf_set_content"
    /\ IF fault[r] = "load_timeout"
       THEN /\ RaiseInBrowserTry(r, "load_timeout")
            /\ UNCHANGED sessions
       ELSE /\ sessions' = [sessions EXCEPT ![browser[r]].content = Html(r)]
            /\ pc' = [pc EXCEPT ![r] = "pdf_print"]
            /\ UNCHANGED <<browser, tmp_html_path, exc, response>>
    /\ UNCHANGED <<filename, output_format, fault, safe_filename, files,
                   tmpfiles, last_delete>>

\* lines 178-190, first half of page.pdf(path=...): Chromium prints the page
\* of this session and the file at output_path is opened for writing
PdfPrint(r) ==
    /\ pc[r] = "pdf_print"
    /\ IF fault[r] = "print"
       THEN /\ RaiseInBrowserTry(r, "print")
            /\ UNCHANGED files
       ELSE /\ files' = OpenedForWrite(safe_filename[r], r,
                                       sessions[browser[r]].content)
            /\ pc' = [pc EXCEPT ![r] = "pdf_write"]
            /\ UNCHANGED <<browser, tmp_html_path, exc, response>>
    /\ UNCHANGED <<filename, output_format, fault, safe_filename, tmpfiles,
                   sessions, last_delete>>

\* lines 178-190, second half of page.pdf(path=...): the bytes are written
PdfWrite(r) ==
    /\ pc[r] = "pdf_write"
    /\ IF fault[r] = "write"
       THEN /\ RaiseInBrowserTry(r, "write")
            /\ files' = Closed(safe_filename[r], r)
       ELSE /\ files' = WrittenAndClosed(safe_filename[r], r,
                                         sessions[browser[r]].content)
            /\ pc' = [pc EXCEPT ![r] = "pdf_close"]
            /\ UNCHANGED <<browser, tmp_html_path, exc, response>>
    /\ UNCHANGED <<filename, output_format, fault, safe_filename, tmpfiles,
                   sessions, last_delete>>

\* lines 192-193: finally: await browser.close(); then the pending exception,
\* if any, leaves generate_pdf and is caught at line 144
PdfClose(r) ==
    /\ pc[r] = "pdf_close"
    /\ sessions' = [i \in DOMAIN sessions \ {browser[r]} |-> sessions[i]]
    /\ IF exc[r] # ""
       THEN HandlerFail(r, exc[r])
       ELSE /\ pc' = [pc EXCEPT ![r] = "finish"]
            /\ browser' = [browser EXCEPT ![r] = 0]
            /\ UNCHANGED <<tmp_html_path, exc, response>>
    /\ UNCHANGED <<filename, output_format, fault, safe_filename, files,
                   tmpfiles, last_delete>>

(* --------------------------- generate_docx ---------------------------- *)

\* lines 200-202: the temp file is created and the html written to it; when
\* the write or the close raises, tmp_html_path is never assigned and the
\* except clause of line 237 re-raises
DocxWriteTmp(r) ==
    /\ pc[r] = "docx_tmp"
    /\ tmpfiles' = [i \in DOMAIN tmpfiles \cup {TempName(r)} |->
                       IF i = TempName(r) THEN Html(r) ELSE tmpfiles[i]]
    /\ IF fault[r] = "tmp_write"
       THEN HandlerFail(r, "tmp_write")
       ELSE /\ tmp_html_path' = [tmp_html_path EXCEPT ![r] = TempName(r)]
            /\ pc' = [pc EXCEPT ![r] = "docx_pandoc"]
            /\ UNCHANGED <<browser, exc, response>>
    /\ UNCHANGED <<filename, output_format, fault, safe_filename, files,
                   sessions, last_delete>>

\* lines 204-231: subprocess.run(pandoc ..., check=True); pandoc reads the
\* temp file and writes output_path, or exits nonzero, or cannot be started
DocxPandoc(r) ==
    /\ pc[r] = "docx_pandoc"
    /\ IF fault[r] = "pandoc_missing"
       THEN /\ exc' = [exc EXCEPT ![r] = "pandoc_missing"]
            /\ UNCHANGED files
       ELSE IF fault[r] = "pandoc_exit" \/ tmp_html_path[r] \notin DOMAIN tmpfiles
       THEN /\ exc' = [exc EXCEPT ![r] = "pandoc_exit"]
            /\ UNCHANGED files
       ELSE /\ files' = WrittenByTool(safe_filename[r], tmpfiles[tmp_html_path[r]])
            /\ UNCHANGED exc
    /\ pc' = [pc EXCEPT ![r] = "docx_cleanup"]
    /\ UNCHANGED <<filename, output_format, fault, safe_filename, browser,
                   tmp_html_path, response, tmpfiles, sessions, last_delete>>

\* lines 232-238: finally: the temp file is removed if it exists; then the
\* pending exception, if any, is wrapped and caught at line 144
DocxCleanup(r) ==
    /\ pc[r] = "docx_cleanup"
    /\ tmpfiles' = [i \in DOMAIN tmpfiles \ {tmp_html_path[r]} |-> tmpfiles[i]]
    /\ IF exc[r] # ""
       THEN HandlerFail(r, exc[r])
       ELSE /\ pc' = [pc EXCEPT ![r] = "finish"]
            /\ tmp_html_path' = [tmp_html_path EXCEPT ![r] = 0]
            /\ UNCHANGED <<browser, exc, response>>
    /\ UNCHANGED <<filename, output_format, fault, safe_filename, files,
                   sessions, last_delete>>

(* ------------------------- end of the handler ------------------------- *)

\* lines 121-142: output_path.stat() raises when the file is absent;
\* otherwise the response carries the size, whatever it is
Finish(r) ==
    /\ pc[r] = "finish"
    /\ IF ~Exists(safe_filename[r])
       THEN HandlerFail(r, "stat")
       ELSE /\ pc' = [pc EXCEPT ![r] = "done"]
            /\ response' = [response EXCEPT ![r] =
                  [status |-> 200,
                   size_kb |-> SizeKb(files[safe_filename[r]].size),
                   detail |-> ""]]
            /\ UNCHANGED <<browser, tmp_html_path, exc>>
    /\ UNCHANGED <<filename, output_format, fault, safe_filename, files,
                   tmpfiles, sessions, last_delete>>

(* --------------------------- delete_pdf ------------------------------- *)

\* lines 251-252: except Exception catches every exception raised in the
\* try block, HTTPException included, and answers 500 with str(e)
DeleteExcept(status, detail) == [status |-> 500, size_kb |-> 0, detail |-> detail]

\* lines 241-252: DELETE /output/{filename}
DeletePdf(name) ==
    /\ IF Exists(name)
       THEN /\ files' = WithoutFile(name)
            /\ last_delete' = [status |-> 200, size_kb |-> 0,
                               detail |-> "succesvol verwijderd"]
       ELSE /\ files' = files
            /\ last_delete' = DeleteExcept(404, "404: Bestand niet gevonden")
    /\ UNCHANGED <<pc, filename, output_format, fault, safe_filename, browser,
                   tmp_html_path, exc, response, tmpfiles, sessions>>

(* ------------------------- inputs and Next ---------------------------- *)

\* filenames asked for by the concurrent requests
JobNames == {<<"a">>, <<"b">>}

\* names a client may ask to delete: the artifacts the requests can produce
DeleteNames == {SafeFilename(fn, fmt) : fn \in JobNames, fmt \in OutputFormat}

\* one step of one /convert request
ConvertStep(r) ==
    \/ \E fn \in JobNames, fmt \in OutputFormat :
          \E flt \in FaultsOf(fmt) : Start(r, fn, fmt, flt)
    \/ PdfLaunch(r)
    \/ PdfNewPage(r)
    \/ PdfSetContent(r)
    \/ PdfPrint(r)
    \/ PdfWrite(r)
    \/ PdfClose(r)
    \/ DocxWriteTmp(r)
    \/ DocxPandoc(r)
    \/ DocxCleanup(r)
    \/ Finish(r)

\* the service: /convert requests and DELETE requests, interleaved
Next ==
    \/ \E r \in Reqs : ConvertStep(r)
    \/ \E name \in DeleteNames : DeletePdf(name)

Spec == Init /\ [][Next]_vars

\* /convert requests alone
NextConvert == \E r \in Reqs : ConvertStep(r)

SpecConvert == Init /\ [][NextConvert]_vars

(* ---------------------- the sanitizer on its own ---------------------- *)

\* characters a requested filename is built from
Alphabet == {"a", "1", "U+00E9", "U+0663", "/", "\\", ".", "_", "-", " "}

\* all sequences over Alphabet of length at most n
RECURSIVE SeqsUpTo(_)
SeqsUpTo(n) ==
    IF n = 0 THEN {<<>>}
    ELSE LET shorter == SeqsUpTo(n - 1)
         IN  shorter \cup {<<c>> \o s : c \in Alphabet, s \in shorter}

\* endings a requested filename may carry
Endings == {<<>>, <<".", "p", "d", "f">>, <<".", "d", "o", "c", "x">>,
            <<".", "t", "x", "t">>}

\* ../../etc/passwd.docx
TraversalName == <<".", ".", "/", ".", ".", "/", "e", "t", "c", "/",
                   "p", "a", "s", "s", "w", "d", ".", "d", "o", "c", "x">>

\* the requested filenames the sanitizer is run on
Filenames == {p \o e : p \in SeqsUpTo(MaxLen), e \in Endings} \cup {TraversalName}

\* a single request arrives with any of the filenames
NextSanitize == \E fn \in Filenames, fmt \in OutputFormat : Start(1, fn, fmt, "none")

SpecSanitize == Init /\ [][NextSanitize]_vars

(* ------------------------------ claims -------------------------------- *)

Arrived(r) == pc[r] # "idle"

\* C1: for every requested filename and every format, the sanitized
\* filename holds only characters of [A-Za-z0-9_.-] and ends with the
\* extension of the requested format.
C1_SafeNameAllowedCharsAndExtension ==
    \A r \in Reqs : Arrived(r) =>
        /\ \A i \in 1..Len(safe_filename[r]) : safe_filename[r][i] \in AllowedChars
        /\ EndsWith(safe_filename[r], DotExtension(output_format[r]))

\* C5: for an empty requested filename, or one made only of characters the
\* sanitizer drops, the sanitized name still has a non-empty base in front
\* of the extension.
C5_FallbackBaseName ==
    \A r \in Reqs :
        (/\ Arrived(r)
         /\ \A i \in 1..Len(filename[r]) :
               ~(IsAlnum(filename[r][i]) \/ filename[r][i] \in KeptPunct))
        => Len(safe_filename[r]) > Len(DotExtension(output_format[r]))

\* C6: the sanitized name holds no '/', no '\' and no '..' sequence.
C6_NoSeparatorNoDotDot ==
    \A r \in Reqs : Arrived(r) =>
        /\ ~Contains(safe_filename[r], "/")
        /\ ~Contains(safe_filename[r], "\\")
        /\ \A i \in 1..(Len(safe_filename[r]) - 1) :
              ~(safe_filename[r][i] = "." /\ safe_filename[r][i + 1] = ".")

\* no other request still in flight writes to r's sanitized filename
NoRivalInFlight(r) ==
    \A s \in Reqs \ {r} :
        pc[s] \notin {"idle", "done"} => safe_filename[s] # safe_filename[r]

\* C2: at the moment a request returns a failure, no file exists at that
\* request's final output path, be it written by the failed request or left
\* by an earlier one (requests racing for the same name are left aside).
C2_NoFileAfterFailure ==
    [][\A r \in Reqs :
          (/\ pc[r] # "done" /\ pc'[r] = "done"
           /\ response'[r].status = 500
           /\ NoRivalInFlight(r))
          => safe_filename[r] \notin DOMAIN files']_vars

\* C3: once generate_docx has returned or raised, no temporary HTML file
\* that it created exists any more.
C3_NoTempFileAfterDocx ==
    \A i \in DOMAIN tmpfiles : pc[tmpfiles[i]] \notin {"finish", "done"}

\* C4: every browser session launched by generate_pdf is closed before
\* generate_pdf returns or raises: an open session belongs to a request
\* that is still inside generate_pdf's try block, and that request holds it.
C4_SessionClosedOnEveryExit ==
    \A i \in DOMAIN sessions :
        /\ pc[sessions[i].owner] \in {"pdf_new_page", "pdf_set_content",
                                      "pdf_print", "pdf_write", "pdf_close"}
        /\ browser[sessions[i].owner] = i

\* C4 witness: a request whose load timed out has returned its failure
\* while the session of another request is still open.
C4_Witness ==
    \E r \in Reqs :
        /\ pc[r] = "done"
        /\ response[r].detail = "load_timeout"
        /\ DOMAIN sessions # {}

\* C7: a request returns a successful result only when the file at its
\* final path exists and holds more than zero bytes.
C7_SuccessOnlyWithNonEmptyFile ==
    [][\A r \in Reqs :
          (pc[r] = "finish" /\ pc'[r] = "done" /\ response'[r].status = 200)
          => /\ safe_filename[r] \in DOMAIN files'
             /\ files'[safe_filename[r]].size > 0]_vars

\* no other request that has arrived shares r's sanitized filename
NameIsOwn(r) ==
    \A s \in Reqs \ {r} : Arrived(s) => safe_filename[s] # safe_filename[r]

\* C8: with distinct sanitized filenames, a request into which no failure
\* is injected completes with a result and its final file holds the whole
\* output of its own html; no two requests hold the same browser session or
\* the same temporary file, and a session only ever shows its owner's html.
C8_ConcurrentRequestsIsolated ==
    /\ \A r \in Reqs :
          (pc[r] = "done" /\ fault[r] = "none" /\ NameIsOwn(r))
          => /\ response[r].status = 200
             /\ response[r].size_kb > 0
             /\ safe_filename[r] \in DOMAIN files
             /\ files[safe_filename[r]].src = Html(r)
             /\ files[safe_filename[r]].size = DocBytes
    /\ \A r \in Reqs : \A s \in Reqs \ {r} :
          /\ browser[r] # 0 => browser[r] # browser[s]
          /\ tmp_html_path[r] # 0 => tmp_html_path[r] # tmp_html_path[s]
    /\ \A r \in Reqs :
          /\ browser[r] # 0 => sessions[browser[r]].content \in {0, Html(r)}
          /\ (tmp_html_path[r] # 0 /\ tmp_html_path[r] \in DOMAIN tmpfiles)
             => tmpfiles[tmp_html_path[r]] = Html(r)

\* C8 witness: a PDF request and a DOCX request with distinct sanitized
\* names have both completed with a result, each file holding its own output.
C8_Witness ==
    /\ pc[1] = "done" /\ pc[2] = "done"
    /\ output_format[1] = "pdf" /\ output_format[2] = "docx"
    /\ response[1].status = 200 /\ response[2].status = 200
    /\ safe_filename[1] \in DOMAIN files /\ safe_filename[2] \in DOMAIN files
    /\ files[safe_filename[1]].src = Html(1)
    /\ files[safe_filename[2]].src = Html(2)

\* C9: the number of sessions open together stays under a fixed bound
\* whatever the number of concurrent requests; with NumReq requests in
\* flight any such bound below NumReq keeps one of them waiting.
C9_OpenSessionsBounded == Cardinality(DOMAIN sessions) < NumReq

\* C10: delete_pdf on a name with no file answers 404 'Bestand niet
\* gevonden' and leaves the directory as it is; on a name with a file it
\* removes exactly that file and answers with the success message.
C10_DeleteAnswers ==
    [][last_delete' # last_delete =>
          \/ /\ files' = files
             /\ last_delete'.status = 404
             /\ last_delete'.detail = "Bestand niet gevonden"
          \/ /\ \E n \in DOMAIN files : files' = WithoutFile(n)
             /\ last_delete'.status = 200
             /\ last_delete'.detail = "succesvol verwijderd"]_vars

====
